---- MODULE Spec2Model ----
(***************************************************************************)
(* Model of bin/ci_tool/display_progress.py: the stream-json progress      *)
(* display that tracks the Claude session id and writes the ci_fix state   *)
(* file on exit, together with the readers of that state file.             *)
(***************************************************************************)
EXTENDS Integers, Sequences, FiniteSets, TLC

VARIABLES
    state_file,     \* STATE_FILE on disk: [exists, readable, text]
    debug_log,      \* EVENT_DEBUG_LOG on disk: [exists, lines]
    pc,             \* position of the display_progress process in main()
    session_id,     \* main(): session_id
    attempt_count,  \* main(): attempt_count
    phase,          \* main(): phase
    text_buffer,    \* main(): text_buffer
    tool_counts,    \* main(): tool_counts (insertion-ordered dict)
    console_out,    \* what this run has shown on stderr, in order
    exc,            \* exception that ended the process uncaught, or "none"
    read_ret,       \* what read_existing_attempt_count() did in this run
    runs,           \* number of runs started so far (also the wall clock)
    lines_read,     \* number of input lines consumed so far, over all runs
    faults,         \* number of signals and I/O errors injected so far
    prior_file,     \* history: STATE_FILE as it was when this run started
    write_calls,    \* history: calls of write_state() in this run
    last_carried,   \* history: id carried by the last handled event that had one
    eof_reached,    \* history: sys.stdin was read to its end in this run
    fault,          \* history: exception raised inside the try block, or "none"
    last_written,   \* history: attempt_count of the latest complete record
    reader_view,    \* what a concurrent reader of STATE_FILE last saw
    fix,            \* ci_fix.py: position and session of fix_ci() on the host
    helper          \* merge_helper_vars.py: position of main() and its two files

vars == <<state_file, debug_log, pc, session_id, attempt_count, phase,
          text_buffer, tool_counts, console_out, exc, read_ret, runs,
          lines_read, faults, prior_file, write_calls, last_carried,
          eof_reached, fault, last_written, reader_view, fix, helper>>

(***************************************************************************)
(* Bounds of the model.                                                    *)
(***************************************************************************)
MaxRuns == 2
MaxLines == 2
MaxFaults == 1
PriorCount == 3

(***************************************************************************)
(* Python / JSON values: a value keeps its type, as json.dump and          *)
(* json.load keep it.                                                      *)
(***************************************************************************)
JStr(s) == [ty |-> "str", s |-> s, n |-> 0]
JInt(n) == [ty |-> "int", s |-> "", n |-> n]
JTime(n) == [ty |-> "time", s |-> "", n |-> n]
JNull == [ty |-> "null", s |-> "", n |-> 0]

\* bool(value), as "x or None" and "if x:" evaluate it
Truthy(v) ==
    CASE v.ty \in {"null", "missing"} -> FALSE
      [] v.ty = "str" -> v.s # ""
      [] v.ty = "int" -> v.n # 0
      [] OTHER -> TRUE

(***************************************************************************)
(* A Python dict with insertion order: a sequence of [k, v] items with     *)
(* distinct keys.                                                          *)
(***************************************************************************)
Item(k, v) == [k |-> k, v |-> v]

DictHas(d, k) == \E i \in 1..Len(d) : d[i].k = k

\* d.get(k, default)
DictGet(d, k, default) ==
    IF DictHas(d, k)
    THEN d[CHOOSE i \in 1..Len(d) : d[i].k = k].v
    ELSE default

\* a d[k] = v that moves a key it updates to the end of the dict
DictSetMoveToEnd(d, k, v) ==
    Append(SelectSeq(d, LAMBDA item : item.k # k), Item(k, v))

\* d[k] = v
DictSet(d, k, v) ==
    IF DictHas(d, k)
    THEN [i \in 1..Len(d) |-> IF d[i].k = k THEN Item(k, v) ELSE d[i]]
    ELSE Append(d, Item(k, v))

(***************************************************************************)
(* The text of a JSON file, as the sequence of tokens json.dump writes.    *)
(***************************************************************************)
Tok(t, k, v) == [t |-> t, k |-> k, v |-> v]
LBrace == Tok("{", "", JNull)
RBrace == Tok("}", "", JNull)
LBrack == Tok("[", "", JNull)
RBrack == Tok("]", "", JNull)
Junk == Tok("junk", "", JNull)
Member(k, v) == Tok("member", k, v)

\* json.dump(obj, fp, indent=2) of a dict
JsonDump(d) ==
    <<LBrace>> \o [i \in 1..Len(d) |-> Member(d[i].k, d[i].v)] \o <<RBrace>>

RECURSIVE MembersToDict(_)
MembersToDict(ms) ==
    IF ms = <<>> THEN <<>>
    ELSE DictSet(MembersToDict(SubSeq(ms, 1, Len(ms) - 1)),
                 ms[Len(ms)].k, ms[Len(ms)].v)

\* json.load(fp) / json.loads(text): the value, or JSONDecodeError
JsonLoad(text) ==
    IF /\ Len(text) >= 2
       /\ text[1] = LBrace
       /\ text[Len(text)] = RBrace
       /\ \A i \in 2..(Len(text) - 1) : text[i].t = "member"
    THEN [raised |-> "none", kind |-> "object",
          obj |-> MembersToDict(SubSeq(text, 2, Len(text) - 1))]
    ELSE IF text = <<LBrack, RBrack>>
    THEN [raised |-> "none", kind |-> "array", obj |-> <<>>]
    ELSE [raised |-> "JSONDecodeError", kind |-> "none", obj |-> <<>>]

(***************************************************************************)
(* STATE_FILE.                                                             *)
(***************************************************************************)
FileAbsent == [exists |-> FALSE, readable |-> FALSE, text |-> <<>>]
FileWith(text) == [exists |-> TRUE, readable |-> TRUE, text |-> text]
FileUnreadable == [exists |-> TRUE, readable |-> FALSE, text |-> <<>>]

\* the dict write_state() builds
StateDict(sid, ph, count, now) ==
    <<Item("session_id", sid), Item("phase", JStr(ph)),
      Item("attempt_count", count), Item("timestamp", JTime(now))>>

\* What a run can find at STATE_FILE: nothing, a file it may not read,
\* text that is not JSON, a JSON array, an object without
\* attempt_count, an object whose attempt_count is a string, and a record
\* left by an earlier run.
InitialFiles ==
    { FileAbsent,
      FileUnreadable,
      FileWith(<<Junk>>),
      FileWith(<<LBrack, RBrack>>),
      FileWith(JsonDump(<<Item("session_id", JStr("s1"))>>)),
      FileWith(JsonDump(<<Item("session_id", JNull),
                          Item("attempt_count", JStr("three"))>>)),
      FileWith(JsonDump(StateDict(JStr("s1"), "completed", JInt(PriorCount), 0))) }

\* read_existing_attempt_count() without its except clause for JSONDecodeError
ReadExistingAttemptCountUncaught(file) ==
    IF ~file.exists
    THEN [raised |-> "none", val |-> JInt(0), warned |-> FALSE]
    ELSE IF ~file.readable
    THEN [raised |-> "PermissionError", val |-> JNull, warned |-> FALSE]
    ELSE LET loaded == JsonLoad(file.text) IN
         IF loaded.raised = "JSONDecodeError"
         THEN [raised |-> "JSONDecodeError", val |-> JNull, warned |-> FALSE]
         ELSE IF loaded.kind # "object"
         THEN [raised |-> "AttributeError", val |-> JNull, warned |-> FALSE]
         ELSE [raised |-> "none",
               val |-> DictGet(loaded.obj, "attempt_count", JInt(0)),
               warned |-> FALSE]

\* read_existing_attempt_count(): [raised, val, warned]
ReadExistingAttemptCount(file) ==
    IF ~file.exists
    THEN [raised |-> "none", val |-> JInt(0), warned |-> FALSE]
    ELSE IF ~file.readable
    THEN [raised |-> "PermissionError", val |-> JNull, warned |-> FALSE]
    ELSE LET loaded == JsonLoad(file.text) IN
         IF loaded.raised = "JSONDecodeError"
         THEN [raised |-> "none", val |-> JInt(0), warned |-> TRUE]
         ELSE IF loaded.kind # "object"
         THEN [raised |-> "AttributeError", val |-> JNull, warned |-> FALSE]
         ELSE [raised |-> "none",
               val |-> DictGet(loaded.obj, "attempt_count", JInt(0)),
               warned |-> FALSE]

(***************************************************************************)
(* Input lines.  A line is what sys.stdin yields: it may carry surrounding *)
(* whitespace (pad), and its text is blank, text that is not JSON, a JSON  *)
(* array, or a JSON object (an event).  An event has an optional           *)
(* session_id, an optional type ("" when the key is missing) and, for the  *)
(* assistant type, a message that is missing, not a dict, or a dict with a *)
(* content list of blocks.                                                 *)
(***************************************************************************)
Missing == [ty |-> "missing", s |-> "", n |-> 0]

Block(type, text, name) == [type |-> type, text |-> text, name |-> name]
TextBlock(text) == Block("text", text, "")
ToolUse(name) == Block("tool_use", "", name)

Line(pad, form, sid, type, message, content) ==
    [pad |-> pad, form |-> form, sid |-> sid, type |-> type,
     message |-> message, content |-> content]

Event(sid, type, message, content) ==
    Line(FALSE, "object", sid, type, message, content)

BlankLine == Line(TRUE, "blank", Missing, "", "missing", <<>>)
NoiseLine == Line(TRUE, "text", Missing, "", "missing", <<>>)
ArrayLine == Line(FALSE, "array", Missing, "", "missing", <<>>)
InitEvent == Event(JStr("s1"), "system", "missing", <<>>)
ProseEvent ==
    Event(Missing, "assistant", "dict", <<TextBlock("a"), TextBlock("b")>>)
MixedEvent ==
    Event(JStr("s2"), "assistant", "dict", <<TextBlock("a"), ToolUse("A")>>)
ToolEvent == Event(JStr(""), "assistant", "dict", <<ToolUse("B")>>)
ToolResultEvent == Event(JStr("s1"), "tool_result", "missing", <<>>)
ResultEvent == Event(JStr("s2"), "result", "missing", <<>>)
FutureEvent == Event(Missing, "future", "missing", <<>>)
BadMessageEvent == Event(JStr("s2"), "assistant", "notdict", <<>>)

Lines ==
    { BlankLine, NoiseLine, ArrayLine, InitEvent, ProseEvent, MixedEvent,
      ToolEvent, ToolResultEvent, ResultEvent, FutureEvent, BadMessageEvent }

\* line.strip()
Strip(line) == [line EXCEPT !.pad = FALSE]

\* str.strip() of a joined buffer is non-empty
IsSpace(fragment) == fragment \in {"", " "}
\* a flush that tests the buffer for emptiness only (no strip)
NonEmpty(combined) == combined # <<>>
\* combined.strip() is not empty
NonBlank(combined) == \E i \in 1..Len(combined) : ~IsSpace(combined[i])

(***************************************************************************)
(* The body of the read loop for one line, as the sequence of effects it   *)
(* performs in program order.  An exception can arrive between any two of  *)
(* them, so the loop body is run up to a given number of effects.          *)
(***************************************************************************)
Op(op, arg) == [op |-> op, arg |-> arg]

\* flush_text_buffer(): clear the buffer, then render what it held
FlushOps == <<Op("flush_clear", ""), Op("flush_print", "")>>

\* a handle_assistant_event() that renders each text fragment as it arrives
BlockOpsEager(block) ==
    IF block.type = "text"
    THEN <<Op("append", block.text)>> \o FlushOps
    ELSE IF block.type = "tool_use"
    THEN FlushOps \o <<Op("count", block.name), Op("status", "")>>
    ELSE <<>>

\* handle_assistant_event(): one block
BlockOps(block) ==
    IF block.type = "text"
    THEN IF block.text # "" THEN <<Op("append", block.text)>> ELSE <<>>
    ELSE IF block.type = "tool_use"
    THEN FlushOps \o <<Op("count", block.name), Op("status", "")>>
    ELSE <<>>

RECURSIVE HandleAssistantEvent(_)
HandleAssistantEvent(content) ==
    IF content = <<>> THEN <<>>
    ELSE BlockOps(Head(content)) \o HandleAssistantEvent(Tail(content))

\* a handle_event() whose tool_result branch updates the status only
HandleEventNoFlush(event) ==
    IF event.type = "assistant"
    THEN CASE event.message = "missing" -> <<>>
           [] event.message = "notdict" -> <<Op("raise", "AttributeError")>>
           [] OTHER -> HandleAssistantEvent(event.content)
    ELSE IF event.type = "tool_result"
    THEN <<Op("status", "")>>
    ELSE <<>>

\* a handle_event() that treats every other type as it treats tool_result
HandleEventFlushAll(event) ==
    IF event.type = "assistant"
    THEN CASE event.message = "missing" -> <<>>
           [] event.message = "notdict" -> <<Op("raise", "AttributeError")>>
           [] OTHER -> HandleAssistantEvent(event.content)
    ELSE FlushOps \o <<Op("status", "")>>

\* handle_event(): the effects of the dispatch on the type
HandleEvent(event) ==
    IF event.type = "assistant"
    THEN CASE event.message = "missing" -> <<>>
           [] event.message = "notdict" -> <<Op("raise", "AttributeError")>>
           [] OTHER -> HandleAssistantEvent(event.content)
    ELSE IF event.type = "tool_result"
    THEN FlushOps \o <<Op("status", "")>>
    ELSE <<>>

\* a handle_event() that never finds a session id
EventSessionIdDropped(event) == JNull

\* event.get("session_id") or None
EventSessionId(event) == IF Truthy(event.sid) THEN event.sid ELSE JNull

\* main(): the loop body for one line read from sys.stdin
LineOps(line) ==
    LET stripped == Strip(line) IN
    IF stripped.form = "blank" THEN <<>>
    ELSE <<Op("debug_write", "")>> \o
         CASE stripped.form = "text" -> <<Op("stderr_write", "")>>
           [] stripped.form = "array" -> <<Op("raise", "AttributeError")>>
           [] OTHER ->
                HandleEvent(stripped) \o
                (IF Truthy(EventSessionId(stripped))
                 THEN <<Op("set_sid", "")>> ELSE <<>>)

\* format_tool_status() / format_tool_summary(): the parts, in dict order
FormatTools(counts) ==
    [i \in 1..Len(counts) |->
        [name |-> counts[i].k, times |-> counts[i].v]]

Shown(kind, text, tools) == [kind |-> kind, text |-> text, tools |-> tools]

\* The locals the loop body works on.
Locals ==
    [session_id |-> session_id, text_buffer |-> text_buffer,
     tool_counts |-> tool_counts, console_out |-> console_out,
     debug_log |-> debug_log, combined |-> <<>>, raised |-> "none"]

\* one effect of the loop body
Exec(op, st, line) ==
    CASE st.raised # "none" -> st
      [] op.op = "debug_write" ->
            [st EXCEPT !.debug_log.lines = Append(@, Strip(line))]
      [] op.op = "stderr_write" ->
            [st EXCEPT !.console_out =
                Append(@, Shown("raw", <<>>, <<>>))]
      [] op.op = "raise" -> [st EXCEPT !.raised = op.arg]
      [] op.op = "append" ->
            [st EXCEPT !.text_buffer = Append(@, op.arg)]
      [] op.op = "flush_clear" ->
            [st EXCEPT !.combined = st.text_buffer, !.text_buffer = <<>>]
      [] op.op = "flush_print" ->
            IF NonBlank(st.combined)
            THEN [st EXCEPT !.console_out =
                      Append(@, Shown("markdown", st.combined, <<>>)),
                            !.combined = <<>>]
            ELSE [st EXCEPT !.combined = <<>>]
      [] op.op = "count" ->
            [st EXCEPT !.tool_counts =
                DictSet(@, op.arg, DictGet(@, op.arg, 0) + 1)]
      [] op.op = "status" ->
            [st EXCEPT !.console_out =
                Append(@, Shown("status", <<>>, FormatTools(st.tool_counts)))]
      [] op.op = "set_sid" ->
            [st EXCEPT !.session_id = EventSessionId(Strip(line))]
      [] OTHER -> st

\* the first k effects of ops
RECURSIVE RunOps(_, _, _, _)
RunOps(ops, k, st, line) ==
    IF k = 0 THEN st
    ELSE Exec(ops[k], RunOps(ops, k - 1, st, line), line)

\* the longest loop body of the input lines
MaxOps ==
    LET n == CHOOSE n \in 0..20 :
                /\ \A line \in Lines : Len(LineOps(line)) <= n
                /\ \E line \in Lines : Len(LineOps(line)) = n
    IN  n

\* the effect writes to a file or to the terminal in this state
DoesIO(op, st) ==
    \/ op.op \in {"debug_write", "stderr_write", "status"}
    \/ op.op = "flush_print" /\ NonBlank(st.combined)

(***************************************************************************)
(* The display_progress process: main().                                   *)
(***************************************************************************)
\* main() taking the stored count as it is, without the + 1
AddNone(v) ==
    IF v.ty = "int"
    THEN [raised |-> "none", val |-> JInt(v.n)]
    ELSE [raised |-> "TypeError", val |-> JNull]

\* read_existing_attempt_count() + 1
AddOne(v) ==
    IF v.ty = "int"
    THEN [raised |-> "none", val |-> JInt(v.n + 1)]
    ELSE [raised |-> "TypeError", val |-> JNull]

\* write_state() that keeps the stored session id when it is given none
WriteStateKeepingId(sid, ph, count, now) ==
    JsonDump(StateDict(
        IF sid = JNull
        THEN DictGet(JsonLoad(prior_file.text).obj, "session_id", JNull)
        ELSE sid,
        ph, count, now))

\* write_state(): the text json.dump puts in STATE_FILE
WriteState(sid, ph, count, now) == JsonDump(StateDict(sid, ph, count, now))

\* the traceback main() prints for a fault it catches
Diagnostic == Shown("error", <<>>, <<>>)

NoView ==
    [who |-> "none", status |-> "unread", sid |-> JNull, torn |-> FALSE,
     whole |-> FALSE]

\* attempt_count of a complete record in file, -1 when there is none
RecordCount(file) ==
    LET loaded == JsonLoad(file.text) IN
    IF /\ file.exists /\ file.readable /\ loaded.raised = "none"
       /\ loaded.kind = "object"
       /\ DictGet(loaded.obj, "attempt_count", JNull).ty = "int"
    THEN DictGet(loaded.obj, "attempt_count", JNull).n
    ELSE -1

\* fix_ci() has not been called
FixIdle == [pc |-> "idle", calls |-> 0]

\* fix_ci() has gathered its session and is about to run the Claude step
FixSession(kind, calls, ci_run_info, org_known, resume_session_id) ==
    [pc |-> "claude", kind |-> kind, org_known |-> org_known,
     ci_run_info |-> ci_run_info, resume_session_id |-> resume_session_id,
     calls |-> calls, steps |-> <<>>, mode |-> "none", claude |-> "none",
     analysis |-> "not run", analysis_sid |-> JNull, launched |-> JNull,
     copy |-> "none", exc |-> "none"]

\* merge_helper_vars.py has not been called
HelperIdle == [pc |-> "idle"]

Init ==
    /\ state_file \in InitialFiles
    /\ debug_log = [exists |-> FALSE, lines |-> <<>>]
    /\ pc = "idle"
    /\ session_id = JNull
    /\ attempt_count = JNull
    /\ phase = "none"
    /\ text_buffer = <<>>
    /\ tool_counts = <<>>
    /\ console_out = <<>>
    /\ exc = "none"
    /\ read_ret = [raised |-> "none", val |-> JNull, warned |-> FALSE]
    /\ runs = 0
    /\ lines_read = 0
    /\ faults = 0
    /\ prior_file = state_file
    /\ write_calls = 0
    /\ last_carried = JNull
    /\ eof_reached = FALSE
    /\ fault = "none"
    /\ last_written = RecordCount(state_file)
    /\ reader_view = NoView
    /\ fix = FixIdle
    /\ helper = HelperIdle

disk == <<state_file, debug_log>>
tools == <<fix, helper>>
locals == <<session_id, text_buffer, tool_counts>>
history == <<prior_file, write_calls, last_carried, eof_reached, last_written>>

\* main() up to the head of the read loop
StartRun ==
    /\ UNCHANGED tools
    /\ UNCHANGED faults
    /\ pc \in {"idle", "done", "crashed"}
    /\ runs < MaxRuns
    /\ LET ret == ReadExistingAttemptCount(state_file)
           sum == AddOne(ret.val)
       IN  /\ read_ret' = ret
           /\ console_out' =
                IF ret.warned THEN <<Shown("warning", <<>>, <<>>)>> ELSE <<>>
           /\ IF ret.raised # "none"
              THEN /\ pc' = "crashed"
                   /\ exc' = ret.raised
                   /\ attempt_count' = JNull
                   /\ phase' = "none"
                   /\ UNCHANGED debug_log
              ELSE IF sum.raised # "none"
              THEN /\ pc' = "crashed"
                   /\ exc' = sum.raised
                   /\ attempt_count' = JNull
                   /\ phase' = "none"
                   /\ UNCHANGED debug_log
              ELSE /\ pc' = "loop"
                   /\ exc' = "none"
                   /\ attempt_count' = sum.val
                   /\ phase' = "fixing"
                   /\ debug_log' = [exists |-> TRUE, lines |-> <<>>]
    /\ runs' = runs + 1
    /\ prior_file' = state_file
    /\ session_id' = JNull
    /\ text_buffer' = <<>>
    /\ tool_counts' = <<>>
    /\ write_calls' = 0
    /\ last_carried' = JNull
    /\ eof_reached' = FALSE
    /\ fault' = "none"
    /\ UNCHANGED <<state_file, lines_read, last_written, reader_view>>

\* the locals and the debug log after the loop body ran as far as st
Apply(st) ==
    /\ session_id' = st.session_id
    /\ text_buffer' = st.text_buffer
    /\ tool_counts' = st.tool_counts
    /\ console_out' = st.console_out
    /\ debug_log' = st.debug_log

\* one iteration of the loop that also saves the record after the line
HandleLineCheckpointing(line) ==
    /\ UNCHANGED tools
    /\ UNCHANGED faults
    /\ pc = "loop"
    /\ lines_read < MaxLines
    /\ lines_read' = lines_read + 1
    /\ LET ops == LineOps(line)
           st == RunOps(ops, Len(ops), Locals, line)
       IN  /\ Apply(st)
           /\ state_file' =
                FileWith(WriteState(st.session_id, phase, attempt_count, runs))
           /\ IF st.raised = "none"
              THEN /\ last_carried' =
                        IF Strip(line).form = "object" /\ Truthy(line.sid)
                        THEN line.sid ELSE last_carried
                   /\ UNCHANGED <<pc, exc, fault>>
              ELSE /\ pc' = "crashed"
                   /\ exc' = st.raised
                   /\ fault' = st.raised
                   /\ UNCHANGED last_carried
    /\ UNCHANGED <<attempt_count, phase, read_ret, runs,
                   prior_file, write_calls, eof_reached, last_written,
                   reader_view>>

\* one iteration of "for line in sys.stdin" that runs to its end
HandleLine(line) ==
    /\ UNCHANGED tools
    /\ UNCHANGED faults
    /\ pc = "loop"
    /\ lines_read < MaxLines
    /\ lines_read' = lines_read + 1
    /\ LET ops == LineOps(line)
           st == RunOps(ops, Len(ops), Locals, line)
       IN  /\ Apply(st)
           /\ IF st.raised = "none"
              THEN /\ last_carried' =
                        IF Strip(line).form = "object" /\ Truthy(line.sid)
                        THEN line.sid ELSE last_carried
                   /\ UNCHANGED <<pc, exc, fault>>
              ELSE /\ pc' = "crashed"
                   /\ exc' = st.raised
                   /\ fault' = st.raised
                   /\ UNCHANGED last_carried
    /\ UNCHANGED <<state_file, attempt_count, phase, read_ret, runs,
                   prior_file, write_calls, eof_reached, last_written,
                   reader_view>>

\* KeyboardInterrupt arrives while the loop body handles a line, after k of
\* its effects
InterruptInLine(line, k) ==
    /\ UNCHANGED tools
    /\ faults < MaxFaults
    /\ faults' = faults + 1
    /\ pc = "loop"
    /\ lines_read < MaxLines
    /\ k \in 0..(Len(LineOps(line)) - 1)
    /\ lines_read' = lines_read + 1
    /\ Apply(RunOps(LineOps(line), k, Locals, line))
    /\ phase' = "interrupted"
    /\ fault' = "KeyboardInterrupt"
    /\ pc' = "finalize"
    /\ UNCHANGED <<state_file, attempt_count, exc, read_ret, runs, prior_file,
                   write_calls, last_carried, eof_reached, last_written,
                   reader_view>>

\* a write to the debug log or to the terminal fails with OSError at the
\* (k+1)-th effect of the loop body; the except clause prints the traceback,
\* a write to the same terminal that may fail in turn
FaultInLine(line, k, printed) ==
    /\ UNCHANGED tools
    /\ faults' = faults + (IF printed THEN 1 ELSE 2)
    /\ faults' <= MaxFaults
    /\ pc = "loop"
    /\ lines_read < MaxLines
    /\ k \in 0..(Len(LineOps(line)) - 1)
    /\ lines_read' = lines_read + 1
    /\ LET ops == LineOps(line)
           st == RunOps(ops, k, Locals, line)
       IN  /\ DoesIO(ops[k + 1], st)
           /\ session_id' = st.session_id
           /\ text_buffer' = st.text_buffer
           /\ tool_counts' = st.tool_counts
           /\ debug_log' = st.debug_log
           /\ IF printed
              THEN /\ console_out' = Append(st.console_out, Diagnostic)
                   /\ phase' = "stuck"
                   /\ pc' = "finalize"
                   /\ UNCHANGED exc
              ELSE /\ console_out' = st.console_out
                   /\ pc' = "crashed"
                   /\ exc' = "OSError"
                   /\ UNCHANGED phase
    /\ fault' = "OSError"
    /\ UNCHANGED <<state_file, attempt_count, read_ret, runs, prior_file,
                   write_calls, last_carried, eof_reached, last_written,
                   reader_view>>

\* a main() whose KeyboardInterrupt lands in the clause that sets "stuck"
InterruptAsStuck ==
    /\ UNCHANGED tools
    /\ faults < MaxFaults
    /\ faults' = faults + 1
    /\ pc = "loop"
    /\ phase' = "stuck"
    /\ fault' = "KeyboardInterrupt"
    /\ pc' = "finalize"
    /\ UNCHANGED <<disk, locals, attempt_count, console_out, exc, read_ret,
                   runs, lines_read, history, reader_view>>

\* KeyboardInterrupt arrives while the loop waits for the next line
Interrupt ==
    /\ UNCHANGED tools
    /\ faults < MaxFaults
    /\ faults' = faults + 1
    /\ pc = "loop"
    /\ phase' = "interrupted"
    /\ fault' = "KeyboardInterrupt"
    /\ pc' = "finalize"
    /\ UNCHANGED <<disk, locals, attempt_count, console_out, exc, read_ret,
                   runs, lines_read, history, reader_view>>

\* a main() whose except clause sets "stuck" without printing the traceback
StreamFaultSilent ==
    /\ UNCHANGED tools
    /\ faults < MaxFaults
    /\ faults' = faults + 1
    /\ pc = "loop"
    /\ phase' = "stuck"
    /\ fault' = "UnicodeDecodeError"
    /\ pc' = "finalize"
    /\ UNCHANGED <<disk, locals, attempt_count, console_out, exc, read_ret,
                   runs, lines_read, history, reader_view>>

\* reading sys.stdin raises (UnicodeDecodeError, OSError)
StreamFault ==
    /\ UNCHANGED tools
    /\ faults < MaxFaults
    /\ faults' = faults + 1
    /\ pc = "loop"
    /\ console_out' = Append(console_out, Diagnostic)
    /\ phase' = "stuck"
    /\ fault' = "UnicodeDecodeError"
    /\ pc' = "finalize"
    /\ UNCHANGED <<disk, locals, attempt_count, exc, read_ret, runs,
                   lines_read, history, reader_view>>

\* sys.stdin ends: the final flush_text_buffer(), then phase = "completed"
EndOfInput ==
    /\ UNCHANGED tools
    /\ UNCHANGED faults
    /\ pc = "loop"
    /\ Apply(RunOps(FlushOps, Len(FlushOps), Locals, BlankLine))
    /\ eof_reached' = TRUE
    /\ phase' = "completed"
    /\ pc' = "finalize"
    /\ UNCHANGED <<state_file, attempt_count, exc, read_ret, runs, lines_read,
                   prior_file, write_calls, last_carried, fault, last_written,
                   reader_view>>

\* a main() that sets phase = "completed" before the final flush
EndOfInputFaultLate ==
    /\ UNCHANGED tools
    /\ faults < MaxFaults
    /\ faults' = faults + 1
    /\ pc = "loop"
    /\ LET st == RunOps(FlushOps, 1, Locals, BlankLine)
       IN  /\ DoesIO(FlushOps[2], st)
           /\ text_buffer' = st.text_buffer
    /\ console_out' = Append(console_out, Diagnostic)
    /\ eof_reached' = TRUE
    /\ phase' = "completed"
    /\ fault' = "OSError"
    /\ pc' = "finalize"
    /\ UNCHANGED <<disk, session_id, tool_counts, attempt_count, exc,
                   read_ret, runs, lines_read, prior_file, write_calls,
                   last_carried, last_written, reader_view>>

\* sys.stdin ends and the final flush fails to print with OSError
EndOfInputFault ==
    /\ UNCHANGED tools
    /\ faults < MaxFaults
    /\ faults' = faults + 1
    /\ pc = "loop"
    /\ LET st == RunOps(FlushOps, 1, Locals, BlankLine)
       IN  /\ DoesIO(FlushOps[2], st)
           /\ text_buffer' = st.text_buffer
    /\ console_out' = Append(console_out, Diagnostic)
    /\ eof_reached' = TRUE
    /\ phase' = "stuck"
    /\ fault' = "OSError"
    /\ pc' = "finalize"
    /\ UNCHANGED <<disk, session_id, tool_counts, attempt_count, exc,
                   read_ret, runs, lines_read, prior_file, write_calls,
                   last_carried, last_written, reader_view>>

\* write_state(): open(STATE_FILE, "w") creates or truncates the file
WriteOpen ==
    /\ UNCHANGED tools
    /\ UNCHANGED faults
    /\ pc = "finalize"
    /\ state_file' = FileWith(<<>>)
    /\ write_calls' = write_calls + 1
    /\ pc' = "writing"
    /\ UNCHANGED <<debug_log, locals, attempt_count, phase, console_out, exc,
                   read_ret, runs, lines_read, prior_file, last_carried,
                   eof_reached, fault, last_written, reader_view>>

\* write_state(): json.dump and the close of the file
WriteDump ==
    /\ UNCHANGED tools
    /\ UNCHANGED faults
    /\ pc = "writing"
    /\ state_file' =
         FileWith(WriteState(session_id, phase, attempt_count, runs))
    /\ last_written' = attempt_count.n
    /\ pc' = "summary"
    /\ UNCHANGED <<debug_log, locals, attempt_count, phase, console_out, exc,
                   read_ret, runs, lines_read, prior_file, write_calls,
                   last_carried, eof_reached, fault, reader_view>>

\* how many tokens of the record a failed write may leave in the file
CutPoints == {2, 4}

\* write_state(): the write fails (OSError) after n tokens reached the file;
\* nothing catches it
WriteCutShort(n) ==
    /\ UNCHANGED tools
    /\ faults < MaxFaults
    /\ faults' = faults + 1
    /\ pc = "writing"
    /\ LET text == WriteState(session_id, phase, attempt_count, runs)
       IN  /\ n \in CutPoints
           /\ n < Len(text)
           /\ state_file' = FileWith(SubSeq(text, 1, n))
    /\ pc' = "crashed"
    /\ exc' = "OSError"
    /\ UNCHANGED <<debug_log, locals, attempt_count, phase, console_out,
                   read_ret, runs, lines_read, history, fault, reader_view>>

\* the process is killed (SIGKILL, container stopped)
Kill ==
    /\ UNCHANGED tools
    /\ faults < MaxFaults
    /\ faults' = faults + 1
    /\ pc \in {"loop", "writing"}
    /\ pc' = "crashed"
    /\ exc' = "SIGKILL"
    /\ UNCHANGED <<disk, locals, attempt_count, phase, console_out, read_ret,
                   runs, lines_read, history, fault, reader_view>>

\* print_session_summary()
PrintSessionSummary(stderr_log) ==
    /\ UNCHANGED tools
    /\ UNCHANGED faults
    /\ pc = "summary"
    /\ console_out' =
         (IF tool_counts # <<>>
          THEN Append(console_out,
                      Shown("tools", <<>>, FormatTools(tool_counts)))
          ELSE console_out)
         \o (IF Truthy(session_id)
             THEN <<Shown("session saved", <<session_id.s>>, <<>>)>>
             ELSE <<Shown("no session", <<>>, <<>>),
                    Shown(stderr_log, <<>>, <<>>)>>)
    /\ pc' = "done"
    /\ UNCHANGED <<disk, locals, attempt_count, phase, exc, read_ret, runs,
                   lines_read, history, fault, reader_view>>

StderrLogs == {"stderr output", "no stderr log"}

Next ==
    \/ StartRun
    \/ \E line \in Lines : HandleLine(line)
    \/ \E line \in Lines, k \in 0..(MaxOps - 1) : InterruptInLine(line, k)
    \/ \E line \in Lines, k \in 0..(MaxOps - 1), printed \in BOOLEAN :
          FaultInLine(line, k, printed)
    \/ Interrupt
    \/ StreamFault
    \/ EndOfInput
    \/ EndOfInputFault
    \/ WriteOpen
    \/ WriteDump
    \/ \E n \in CutPoints : WriteCutShort(n)
    \/ Kill
    \/ \E stderr_log \in StderrLogs : PrintSessionSummary(stderr_log)

Spec == Init /\ [][Next]_vars

(***************************************************************************)
(* Readers of STATE_FILE that run beside the display process: ci_fix.py's  *)
(* read_container_state() on the host and the resume_claude shell function *)
(* in the container.                                                       *)
(***************************************************************************)
\* the file holds a whole record, as write_state() writes it
IsCompleteRecord(file) ==
    LET loaded == JsonLoad(file.text) IN
    /\ file.exists
    /\ file.readable
    /\ loaded.raised = "none"
    /\ loaded.kind = "object"
    /\ \A key \in {"session_id", "phase", "attempt_count", "timestamp"} :
          DictHas(loaded.obj, key)

\* what a reader got: its outcome, the session id it goes on with, whether
\* it read between the open and the close of write_state() (torn), and
\* whether the text it read was a whole record (whole)
View(who, status, sid, file) ==
    [who |-> who, status |-> status, sid |-> sid,
     torn |-> pc = "writing", whole |-> IsCompleteRecord(file)]

\* read_container_state(): None when cat fails, None (and a warning) when
\* the text is not JSON, else the decoded value
ReadContainerStateOf(file) ==
    IF ~file.exists \/ ~file.readable
    THEN View("read_container_state", "none", JNull, file)
    ELSE LET loaded == JsonLoad(file.text) IN
         IF loaded.raised = "JSONDecodeError"
         THEN View("read_container_state", "invalid json", JNull, file)
         ELSE View("read_container_state", loaded.kind,
                   DictGet(loaded.obj, "session_id", JNull), file)

\* str(value), as print() writes it
PyStr(v) == IF v.ty = "null" THEN "None" ELSE v.s

\* resume_claude(): no state file, a fresh session, or a resumed one
ResumeClaudeOf(file) ==
    IF ~file.exists
    THEN View("resume_claude", "no state", JNull, file)
    ELSE LET loaded == JsonLoad(file.text)
             printed ==
                IF /\ file.readable
                   /\ loaded.raised = "none"
                   /\ loaded.kind = "object"
                   /\ DictHas(loaded.obj, "session_id")
                THEN PyStr(DictGet(loaded.obj, "session_id", JNull))
                ELSE ""
         IN  IF printed = "" \/ printed = "None"
             THEN View("resume_claude", "fresh", JNull, file)
             ELSE View("resume_claude", "resume", JStr(printed), file)

ReadContainerState ==
    /\ UNCHANGED tools
    /\ reader_view' = ReadContainerStateOf(state_file)
    /\ UNCHANGED <<disk, pc, locals, attempt_count, phase, console_out, exc,
                   read_ret, runs, lines_read, faults, history, fault>>

ResumeClaude ==
    /\ UNCHANGED tools
    /\ reader_view' = ResumeClaudeOf(state_file)
    /\ UNCHANGED <<disk, pc, locals, attempt_count, phase, console_out, exc,
                   read_ret, runs, lines_read, faults, history, fault>>

NextWithReaders ==
    \/ Next
    \/ ReadContainerState
    \/ ResumeClaude

SpecReaders == Init /\ [][NextWithReaders]_vars

(***************************************************************************)
(* Properties.                                                             *)
(***************************************************************************)
\* the dict STATE_FILE decodes to (empty when it holds no JSON object)
FileRecord == JsonLoad(state_file.text).obj
Field(key) == DictGet(FileRecord, key, Missing)

\* write_state() has returned in this run
Written == pc \in {"summary", "done"}
\* the process of this run has ended
Ended == pc \in {"done", "crashed"}

\* the run found a record of an earlier run
PriorValid == IsCompleteRecord(prior_file) /\ RecordCount(prior_file) >= 0
\* the run found no file, or a file whose text is not JSON
PriorMissingOrInvalid ==
    \/ ~prior_file.exists
    \/ prior_file.readable /\ JsonLoad(prior_file.text).raised = "JSONDecodeError"
\* the attempt count the run starts from
PriorOrZero == IF PriorValid THEN RecordCount(prior_file) ELSE 0

\* C1: every run of main() that reached the read loop calls write_state
\* exactly once, whatever lines arrived and whichever way the loop ended
\* (end of input, interrupt, fault of any kind), and never while the loop
\* is still running.
C1_WriteStateExactlyOnce ==
    /\ pc = "loop" => write_calls = 0
    /\ (Ended /\ phase # "none" /\ exc # "SIGKILL") => write_calls = 1

\* C2: a reader that reads STATE_FILE while write_state is running reads a
\* whole record, never an empty or truncated file.
C2_ReaderSeesWholeRecord == reader_view.torn => reader_view.whole

\* C3: read_existing_attempt_count never raises; it returns the stored
\* attempt_count of a valid prior record and the integer 0 for every other
\* condition of the state file.
C3_ReadNeverRaises ==
    runs > 0 =>
        /\ read_ret.raised = "none"
        /\ read_ret.val = JInt(PriorOrZero)

\* C4: a run that found a valid record with attempt_count = n writes a
\* record with attempt_count = n + 1, whichever of the three terminal
\* phases it reached; the phase written is that phase.
C4_CountIncremented ==
    (Written /\ PriorValid) =>
        /\ IsCompleteRecord(state_file)
        /\ Field("attempt_count") = JInt(RecordCount(prior_file) + 1)
        /\ phase \in {"completed", "interrupted", "stuck"}
        /\ Field("phase") = JStr(phase)

C4_Witness ==
    /\ pc = "done"
    /\ RecordCount(prior_file) = PriorCount
    /\ phase = "stuck"
    /\ Field("attempt_count") = JInt(PriorCount + 1)

\* C5: over any sequence of runs, cut-short writes and kills included, the
\* attempt_count of a record written to STATE_FILE is never below that of
\* the record written before it.
C5_CountNeverDecreases ==
    [][(pc = "writing" /\ pc' = "summary")
          => RecordCount(state_file') >= last_written]_vars

\* C6: a run that finds no state file, or one whose text is not JSON, reads
\* an attempt count of 0 without raising, works with attempt_count = 1, and
\* the file its write leaves is a whole record with attempt_count = 1.
C6_MissingOrInvalidIsZero ==
    (runs > 0 /\ PriorMissingOrInvalid) =>
        /\ read_ret.raised = "none"
        /\ read_ret.val = JInt(0)
        /\ attempt_count = JInt(1)
        /\ Written =>
              /\ IsCompleteRecord(state_file)
              /\ Field("attempt_count") = JInt(1)

C6_Witness ==
    /\ pc = "done"
    /\ prior_file.exists
    /\ PriorMissingOrInvalid
    /\ Field("attempt_count") = JInt(1)

\* C7: the session_id tracked by the loop, and written in the final record,
\* is the identifier carried by the last handled event that carried a
\* non-empty one (null when there was none): events with no or an empty
\* identifier do not reset it, a later identifier replaces an earlier one.
C7_LatestSessionIdWins ==
    /\ pc \in {"loop", "finalize", "writing", "summary", "done"}
          => session_id = last_carried
    /\ Written => Field("session_id") = last_carried

C7_Witness ==
    /\ pc = "done"
    /\ Len(debug_log.lines) = 2
    /\ debug_log.lines[1].sid = JStr("s1")
    /\ debug_log.lines[2].sid = JStr("s2")
    /\ Field("session_id") = JStr("s2")

\* C8: a run interrupted by the operator writes phase = interrupted,
\* attempt_count = prior count + 1 and the session_id observed last before
\* the interrupt.
C8_InterruptedRecord ==
    (Written /\ fault = "KeyboardInterrupt") =>
        /\ Field("phase") = JStr("interrupted")
        /\ Field("attempt_count") = JInt(PriorOrZero + 1)
        /\ Field("session_id") = last_carried

C8_Witness ==
    /\ pc = "done"
    /\ fault = "KeyboardInterrupt"
    /\ ~eof_reached
    /\ tool_counts # <<>>
    /\ last_carried # JNull
    /\ Field("phase") = JStr("interrupted")

\* C9: phase is completed, in main() and in the record written, only when
\* the input reached its end and nothing was raised and no interrupt
\* arrived; a run with an interrupt or a fault never records completed.
C9_CompletedOnlyAfterCleanEnd ==
    /\ phase = "completed" => (eof_reached /\ fault = "none")
    /\ (Written /\ Field("phase") = JStr("completed"))
          => (eof_reached /\ fault = "none")
    /\ (Written /\ fault # "none") => Field("phase") # JStr("completed")

C9_Witness ==
    /\ pc = "done"
    /\ lines_read > 0
    /\ eof_reached
    /\ Field("phase") = JStr("completed")

\* C10: every fault raised while the stream is consumed ends the run with
\* phase = stuck in STATE_FILE, and the diagnostic is on the terminal
\* before write_state is called.
C10_FaultEndsStuck ==
    LET faulted == fault \notin {"none", "KeyboardInterrupt"} IN
    /\ (faulted /\ pc \in {"writing", "summary", "done"})
          => (phase = "stuck"
              /\ \E i \in 1..Len(console_out) : console_out[i] = Diagnostic)
    /\ (faulted /\ Ended /\ exc # "SIGKILL")
          => (pc = "done" /\ Field("phase") = JStr("stuck"))

(***************************************************************************)
(* The display process fed with assistant events of every shape of content *)
(* (one or two blocks, each a text fragment that is prose or whitespace,   *)
(* or a tool_use naming A or B; one event with an empty fragment),         *)
(* tool_result events and result events, with no signal and no I/O error.  *)
(***************************************************************************)
ShapeBlocks ==
    { TextBlock("a"), TextBlock(" "), ToolUse("A"), ToolUse("B") }

EmptyFragmentEvent ==
    Event(Missing, "assistant", "dict", <<TextBlock(""), TextBlock("a")>>)

\* an event with no "type" key: event.get("type", "") is ""
UntypedEvent == Event(JStr("s1"), "", "missing", <<>>)

ShapeLines ==
    { Event(Missing, "assistant", "dict", <<b>>) : b \in ShapeBlocks }
    \cup { Event(Missing, "assistant", "dict", <<b, c>>) :
              b \in ShapeBlocks, c \in ShapeBlocks }
    \cup { EmptyFragmentEvent, ToolResultEvent, ResultEvent, FutureEvent,
           UntypedEvent }

InitEvents == Init /\ state_file = FileAbsent

NextEvents ==
    \/ StartRun
    \/ \E line \in ShapeLines : HandleLine(line)
    \/ EndOfInput
    \/ WriteOpen
    \/ WriteDump
    \/ \E stderr_log \in StderrLogs : PrintSessionSummary(stderr_log)

SpecEvents == InitEvents /\ [][NextEvents]_vars

(***************************************************************************)
(* Properties of the loop body and of the end of the run.                  *)
(***************************************************************************)
\* the line the loop body has last written to the debug log
LastLine(log) == log.lines[Len(log.lines)]

\* the content of an assistant event, <<>> for every other line
ContentOf(line) ==
    IF line.form = "object" /\ line.type = "assistant" /\ line.message = "dict"
    THEN line.content ELSE <<>>

\* C11: a non-empty line that is not an event (text that is not JSON, or a
\* JSON value that is not an object) leaves session_id, text_buffer and
\* tool_counts as they were, and the loop goes on to the next line.
C11_UnparseableLineSkipped ==
    [][(/\ pc = "loop"
        /\ faults' = faults
        /\ Len(debug_log'.lines) = Len(debug_log.lines) + 1
        /\ LastLine(debug_log').form \in {"text", "array"})
          => (pc' = "loop" /\ UNCHANGED locals)]_vars

\* no signal and no I/O error has reached this run
Undisturbed ==
    /\ fault \in {"none", "AttributeError", "TypeError"}
    /\ exc \in {"none", "AttributeError", "TypeError"}

\* every line the run has read is text that is not JSON or a JSON value
\* that is not an object, and there is at least one
OnlyUnparseable ==
    /\ debug_log.exists
    /\ debug_log.lines # <<>>
    /\ \A i \in 1..Len(debug_log.lines) :
          debug_log.lines[i].form \in {"text", "array"}

\* the "No session ID captured" message is on the terminal
NoSessionShown ==
    \E i \in 1..Len(console_out) : console_out[i].kind = "no session"

\* C12: a run that was fed only unparseable lines ends with a record whose
\* phase is completed and whose session_id is null, and with the "no
\* session captured" summary; it is not classified as stuck.
C12_OnlyUnparseableCompletes ==
    (Ended /\ Undisturbed /\ OnlyUnparseable)
       => /\ pc = "done"
          /\ Field("phase") = JStr("completed")
          /\ Field("session_id") = JNull
          /\ NoSessionShown

\* write_state() was called in this run and raised OSError
WriteFailed == write_calls >= 1 /\ exc = "OSError"

\* C13: when write_state fails there is no second write, and
\* print_session_summary still runs, with the session id and the tool
\* counts the run had computed.
C13_SummaryAfterFailedWrite ==
    WriteFailed => (write_calls = 1 /\ pc \in {"summary", "done"})

\* the display updates on the terminal: prose rendered, status updated
DisplayUpdates(out) ==
    Cardinality({ i \in 1..Len(out) : out[i].kind \in {"markdown", "status"} })

\* the loop body has run to its end for one line
LineHandled ==
    /\ pc = "loop"
    /\ pc' = "loop"
    /\ lines_read' = lines_read + 1

\* C14: handling one event performs at most one display update (a render
\* of prose or an update of the status), whatever blocks the event holds.
C14_OneUpdatePerEvent ==
    [][LineHandled
         => DisplayUpdates(console_out') <= DisplayUpdates(console_out) + 1]_vars

\* the text fragments of the blocks of content, in order
Fragments(content) == [i \in 1..Len(content) |-> content[i].text]

\* "".join(fragments): empty fragments add nothing
Joined(fragments) == SelectSeq(fragments, LAMBDA f : f # "")

\* the step handled an assistant event whose blocks are all text fragments
ProseOnlyHandled ==
    /\ LineHandled
    /\ Len(debug_log'.lines) = Len(debug_log.lines) + 1
    /\ LET content == ContentOf(LastLine(debug_log')) IN
          /\ content # <<>>
          /\ \A i \in 1..Len(content) : content[i].type = "text"

\* C15: handling an assistant event with N text fragments and no tool_use
\* block renders nothing and leaves text_buffer equal to what it held
\* followed by the N fragments in their order.
C15_ProseBuffered ==
    [][ProseOnlyHandled
         => /\ console_out' = console_out
            /\ Joined(text_buffer') =
                 Joined(text_buffer)
                   \o Joined(Fragments(ContentOf(LastLine(debug_log'))))]_vars

C15_Witness ==
    /\ pc = "loop"
    /\ Len(debug_log.lines) = 2
    /\ ContentOf(debug_log.lines[1]) = <<TextBlock("a")>>
    /\ ContentOf(debug_log.lines[2]) = <<TextBlock(" "), TextBlock("a")>>
    /\ text_buffer = <<"a", " ", "a">>
    /\ console_out = <<>>

\* the names of the tool_use blocks of content, in order
RECURSIVE ToolNames(_)
ToolNames(content) ==
    IF content = <<>> THEN <<>>
    ELSE (IF Head(content).type = "tool_use"
          THEN <<Head(content).name>> ELSE <<>>)
         \o ToolNames(Tail(content))

\* the tool invocations of the events in lines, in order
RECURSIVE Invocations(_)
Invocations(lines) ==
    IF lines = <<>> THEN <<>>
    ELSE ToolNames(ContentOf(Head(lines))) \o Invocations(Tail(lines))

\* the distinct names of a sequence, each at the place it first occurs
RECURSIVE FirstSeen(_)
FirstSeen(names) ==
    IF names = <<>> THEN <<>>
    ELSE LET front == SubSeq(names, 1, Len(names) - 1)
             last == names[Len(names)]
         IN  IF \E i \in 1..Len(front) : front[i] = last
             THEN FirstSeen(front)
             ELSE Append(FirstSeen(front), last)

\* what the status and the summary must show for the invocations names
Tally(names) ==
    LET order == FirstSeen(names) IN
    [i \in 1..Len(order) |->
        [name |-> order[i],
         times |-> Cardinality({ j \in 1..Len(names) : names[j] = order[i] })]]

\* the tool counts the status showed last, <<>> when it showed none
LastStatus ==
    LET shown == SelectSeq(console_out, LAMBDA e : e.kind = "status") IN
    IF shown = <<>> THEN <<>> ELSE shown[Len(shown)].tools

\* C16: the count of each tool name equals the number of invocations that
\* named it, and the status and the summary list the tools in the order in
\* which each name was first seen.
C16_ToolCountsInFirstSeenOrder ==
    LET names == Invocations(debug_log.lines) IN
    /\ FormatTools(tool_counts) = Tally(names)
    /\ names # <<>> => LastStatus = Tally(names)
    /\ (pc = "done" /\ names # <<>>)
          => \E i \in 1..Len(console_out) :
                console_out[i] = Shown("tools", <<>>, Tally(names))

C16_Witness ==
    /\ pc = "done"
    /\ Invocations(debug_log.lines) = <<"A", "A", "B">>
    /\ \E i \in 1..Len(console_out) :
          console_out[i] =
             Shown("tools", <<>>, <<[name |-> "A", times |-> 2],
                                    [name |-> "B", times |-> 1]>>)

\* the place of the first status update at or after the k-th effect of ops
NextStatus(ops, k) ==
    CHOOSE s \in k..Len(ops) :
       /\ ops[s].op = "status"
       /\ \A j \in k..(s - 1) : ops[j].op # "status"

\* the flush that starts at the k-th effect of the loop body of line renders
\* the buffered prose first, with the tool counts untouched; the status
\* update that follows it comes after, and leaves the buffer empty
FlushThenStatus(line, k) ==
    LET ops == LineOps(line)
        pre == RunOps(ops, k - 1, Locals, line)
        rendered == RunOps(ops, k + 1, Locals, line)
        s == NextStatus(ops, k)
        done == RunOps(ops, s, Locals, line)
    IN  /\ rendered.text_buffer = <<>>
        /\ rendered.tool_counts = pre.tool_counts
        /\ rendered.console_out =
             pre.console_out
               \o (IF NonBlank(pre.text_buffer)
                   THEN <<Shown("markdown", pre.text_buffer, <<>>)>>
                   ELSE <<>>)
        /\ done.text_buffer = <<>>
        /\ done.console_out =
             Append(rendered.console_out,
                    Shown("status", <<>>, FormatTools(done.tool_counts)))

\* C17: once a tool_use block or a tool_result event has been handled the
\* text buffer is empty, and the prose buffered before it is rendered
\* before the tool count is incremented and before the status is updated.
C17_FlushBeforeToolUpdate ==
    pc = "loop" =>
       \A line \in ShapeLines :
          LET ops == LineOps(line) IN
          \A k \in 1..Len(ops) :
             /\ ops[k].op = "count"
                   => RunOps(ops, k - 1, Locals, line).text_buffer = <<>>
             /\ ops[k].op = "status"
                   => RunOps(ops, k, Locals, line).text_buffer = <<>>
             /\ ops[k].op = "flush_clear" => FlushThenStatus(line, k)

C17_Witness ==
    /\ pc = "loop"
    /\ Len(debug_log.lines) = 2
    /\ ContentOf(debug_log.lines[1]) = <<TextBlock("a")>>
    /\ ContentOf(debug_log.lines[2]) = <<TextBlock(" "), ToolUse("A")>>
    /\ text_buffer = <<>>
    /\ console_out =
          << Shown("markdown", <<"a", " ">>, <<>>),
             Shown("status", <<>>, <<[name |-> "A", times |-> 1]>>) >>

\* C18: when a result event has been handled, and when the stream has
\* ended, the text buffer has been flushed: it is empty.
C18_FlushAtResultAndEnd ==
    /\ (/\ pc = "loop"
        /\ debug_log.lines # <<>>
        /\ LastLine(debug_log).form = "object"
        /\ LastLine(debug_log).type = "result")
          => text_buffer = <<>>
    /\ (eof_reached /\ fault = "none") => text_buffer = <<>>

\* every fragment is empty or whitespace
AllSpace(fragments) ==
    \A j \in 1..Len(fragments) : fragments[j] \in {"", " "}

\* the flush that starts at the k-th effect of the loop body of line leaves
\* the buffer empty, renders nothing for a buffer that is empty or blank,
\* and changes nothing at all when the buffer is empty
FlushIsClean(line, k) ==
    LET ops == LineOps(line)
        pre == RunOps(ops, k - 1, Locals, line)
        post == RunOps(ops, k + 1, Locals, line)
    IN  /\ post.text_buffer = <<>>
        /\ AllSpace(pre.text_buffer) => post.console_out = pre.console_out
        /\ pre.text_buffer = <<>> => post = pre

\* C19: flush_text_buffer on an empty buffer changes nothing and renders
\* nothing; no flush renders empty or whitespace-only output; after every
\* flush the buffer is empty.
C19_FlushNeverRendersBlank ==
    /\ \A i \in 1..Len(console_out) :
          console_out[i].kind = "markdown" => ~AllSpace(console_out[i].text)
    /\ pc = "loop" =>
          \A line \in ShapeLines :
             \A k \in 1..Len(LineOps(line)) :
                LineOps(line)[k].op = "flush_clear" => FlushIsClean(line, k)
    /\ (eof_reached /\ fault = "none") => text_buffer = <<>>

C19_Witness ==
    /\ pc = "loop"
    /\ Len(debug_log.lines) = 2
    /\ ContentOf(debug_log.lines[1]) = <<TextBlock(" ")>>
    /\ ContentOf(debug_log.lines[2]) = <<ToolUse("A"), ToolUse("B")>>
    /\ text_buffer = <<>>
    /\ DisplayUpdates(console_out) = 2
    /\ \A i \in 1..Len(console_out) : console_out[i].kind = "status"

\* the step decoded an event that carries a non-empty session id, and either
\* handled it to the end or was stopped within handle_event()
EventWithIdDecoded ==
    /\ pc = "loop"
    /\ lines_read' = lines_read + 1
    /\ Len(debug_log'.lines) = Len(debug_log.lines) + 1
    /\ LastLine(debug_log').form = "object"
    /\ Truthy(LastLine(debug_log').sid)
    /\ \/ pc' = "loop"
       \/ exc' = "AttributeError"
       \/ <<text_buffer, tool_counts, console_out>>'
             # <<text_buffer, tool_counts, console_out>>

\* C20: the session id a decoded event carries becomes the tracked session
\* id whatever the type of the event is and whatever happens while the
\* content of the event is handled.
C20_SessionIdIndependentOfType ==
    [][EventWithIdDecoded => session_id' = LastLine(debug_log').sid]_vars

\* the types of event the stream is known to carry
KnownTypes == {"system", "assistant", "tool_result", "result"}

\* the step handled an event whose type is unrecognized or missing
UnknownTypeHandled ==
    /\ pc = "loop"
    /\ lines_read' = lines_read + 1
    /\ Len(debug_log'.lines) = Len(debug_log.lines) + 1
    /\ LastLine(debug_log').form = "object"
    /\ LastLine(debug_log').type \notin KnownTypes

\* C21: an event whose type is unrecognized or missing is not rejected: the
\* loop continues, and text_buffer, tool_counts and the display are left as
\* they were.
C21_UnknownTypeIgnored ==
    [][UnknownTypeHandled
         => /\ pc' = "loop"
            /\ UNCHANGED <<text_buffer, tool_counts, console_out>>]_vars

C21_Witness ==
    /\ pc = "loop"
    /\ Len(debug_log.lines) = 2
    /\ ContentOf(debug_log.lines[1]) = <<ToolUse("A"), TextBlock("a")>>
    /\ debug_log.lines[2] = UntypedEvent
    /\ text_buffer = <<"a">>
    /\ FormatTools(tool_counts) = <<[name |-> "A", times |-> 1]>>
    /\ DisplayUpdates(console_out) = 1
    /\ session_id = JStr("s1")

\* the lines of log before are still the first lines of log after
KeepsLines(before, after) ==
    /\ Len(after.lines) >= Len(before.lines)
    /\ SubSeq(after.lines, 1, Len(before.lines)) = before.lines

\* C22: every line read is appended to the debug log before it takes
\* effect, and the lines already in the log are never removed or rewritten,
\* within a run and from one run to the next.
C22_DebugLogAppendOnly ==
    [][/\ KeepsLines(debug_log, debug_log')
       /\ (pc = "loop" /\ lines_read' = lines_read + 1 /\ locals' # locals)
             => Len(debug_log'.lines) = Len(debug_log.lines) + 1]_vars

\* the session id of the last of lines that carries a non-empty one
RECURSIVE LastId(_)
LastId(lines) ==
    IF lines = <<>> THEN JNull
    ELSE LET last == lines[Len(lines)] IN
         IF last.form = "object" /\ Truthy(last.sid)
         THEN last.sid
         ELSE LastId(SubSeq(lines, 1, Len(lines) - 1))

\* C23: an interrupt takes effect between line reads only: when phase is
\* interrupted every line in the debug log has been applied completely,
\* its session id tracked and its tool invocations counted.
C23_InterruptBetweenLines ==
    phase = "interrupted"
       => /\ session_id = LastId(debug_log.lines)
          /\ FormatTools(tool_counts) = Tally(Invocations(debug_log.lines))

\* the "Display processor error" traceback is on the terminal
DiagnosticShown ==
    \E i \in 1..Len(console_out) : console_out[i] = Diagnostic

\* C24: what is printed for a run that completed without a session id
\* differs from what is printed for a stuck run: the first shows the "no
\* session captured" message and no fault diagnostic, the second shows the
\* fault diagnostic.
C24_NoSessionDistinctFromStuck ==
    pc = "done"
       => /\ (phase = "completed" /\ ~Truthy(session_id))
                => (NoSessionShown /\ ~DiagnosticShown)
          /\ phase = "stuck" => DiagnosticShown

C24_Witness ==
    /\ pc = "done"
    /\ phase = "stuck"
    /\ ~Truthy(session_id)
    /\ NoSessionShown
    /\ DiagnosticShown

\* the keys write_state() puts in every record
StateKeys == {"session_id", "phase", "attempt_count", "timestamp"}

\* C25: the record written by a run that ends stuck carries the diagnostic
\* detail of the fault, that is, a member beyond the four of every record.
C25_StuckRecordHasDiagnostic ==
    (Written /\ Field("phase") = JStr("stuck"))
       => \E i \in 1..Len(FileRecord) : FileRecord[i].k \notin StateKeys

\* C27: the state file is not modified while the stream is consumed: from
\* the start of a run until write_state is called the file holds exactly
\* what the run found, and a run that ends without calling write_state
\* leaves the file as it found it.
C27_StateFileUntouchedUntilWrite ==
    (runs > 0 /\ write_calls = 0) => state_file = prior_file

\* a run that found a record, logged a line and ended without write_state
C27_Witness ==
    /\ Ended
    /\ write_calls = 0
    /\ phase = "fixing"
    /\ Len(debug_log.lines) > 0
    /\ IsCompleteRecord(state_file)

\* the session id stored in the record the run found
PriorSessionId == DictGet(JsonLoad(prior_file.text).obj, "session_id", JNull)

\* C29: every record written by a run has a phase in {completed,
\* interrupted, stuck}, an attempt_count of at least 1 when the run found no
\* file or a record of an earlier run, and a session_id that is null or a
\* non-empty string; the session_id is one that a line of this run carried,
\* so an id stored by an earlier run is replaced by null when this run
\* observed none.
C29_RecordWellFormed ==
    Written =>
        LET record == FileRecord
            written_phase == DictGet(record, "phase", Missing)
            written_count == DictGet(record, "attempt_count", Missing)
            written_id == DictGet(record, "session_id", Missing)
        IN  /\ written_phase \in {JStr("completed"), JStr("interrupted"),
                                  JStr("stuck")}
            /\ (~prior_file.exists \/ PriorValid)
                  => /\ written_count.ty = "int"
                     /\ written_count.n >= 1
            /\ \/ written_id = JNull
               \/ written_id.ty = "str" /\ written_id.s # ""
            /\ \/ written_id = JNull
               \/ \E i \in 1..Len(debug_log.lines) :
                     /\ debug_log.lines[i].form = "object"
                     /\ debug_log.lines[i].sid = written_id

\* a run that found a record with a session id, read lines that carry none
\* and wrote its record
C29_Witness ==
    /\ Written
    /\ PriorValid
    /\ Truthy(PriorSessionId)
    /\ Len(debug_log.lines) > 0
    /\ Field("session_id") = JNull

(***************************************************************************)
(* ci_fix.py: fix_ci() on the host.  It gathers the session, runs the      *)
(* Claude step (an interactive resume, or run_claude_workflow() with its   *)
(* analysis run, review prompt and fix phase), copies the learnings back   *)
(* and replaces itself by a shell in the container.  The analysis run and  *)
(* the fix phase pipe Claude into ci_fix_display, the display process      *)
(* above, which is summarised here by the way it ends.                     *)
(***************************************************************************)
\* how many times the operator calls fix_ci
MaxCalls == 2

\* the display variables fix_ci never touches
display == <<debug_log, pc, locals, attempt_count, phase, console_out, exc,
             read_ret, runs, lines_read, faults, history, fault,
             reader_view>>

\* all the variables of the display process
vars_display == <<state_file, display>>

\* the keyword parameters docker_exec() declares
DockerExecParameters == {"interactive", "check", "quiet"}

\* docker_exec() that takes any keyword
DockerExecAnyKeyword(keywords) == "none"

\* docker_exec(container_name, command, **keywords): what the call raises
DockerExec(keywords) ==
    IF keywords \subseteq DockerExecParameters THEN "none" ELSE "TypeError"

\* How a run of `claude ... | ci_fix_display` ends in the container: with a
\* record of one of the three phases, or with no record (the display
\* process was killed or ended on a fault that nothing catches), and the
\* session id the display process tracked.
DisplayEndings == {"completed", "interrupted", "stuck", "no record"}
DisplayRun(ending, sid) == [ending |-> ending, sid |-> sid]
DisplayRuns ==
    { DisplayRun(ending, sid) :
         ending \in DisplayEndings, sid \in {JNull, JStr("s2")} }

\* how the docker exec call ends on the host, and the endings of the
\* display process that go with it: Claude ran to its end, Claude or the
\* pipeline failed, or the operator pressed Ctrl-C
HostOutcomes == {"returned", "nonzero", "KeyboardInterrupt"}
ClaudeRun(run, host) == [run |-> run, host |-> host]
ClaudeRuns ==
    { ClaudeRun(run, host) : run \in DisplayRuns, host \in HostOutcomes } \cap
    ( { ClaudeRun(DisplayRun("completed", sid), "returned") :
           sid \in {JNull, JStr("s2")} }
      \cup { ClaudeRun(DisplayRun(ending, JNull), "nonzero") :
                ending \in {"completed", "stuck", "no record"} }
      \cup { ClaudeRun(DisplayRun(ending, JStr("s2")), "KeyboardInterrupt") :
                ending \in {"interrupted", "no record"} } )

\* STATE_FILE after display_progress.main() ran to that ending
AfterDisplay(file, run) ==
    LET ret == ReadExistingAttemptCount(file)
        sum == AddOne(ret.val)
    IN  IF \/ ret.raised # "none"
           \/ sum.raised # "none"
           \/ run.ending = "no record"
        THEN [file |-> file, wrote |-> FALSE]
        ELSE [file |-> FileWith(WriteState(run.sid, run.ending, sum.val, 1)),
              wrote |-> TRUE]

\* run_claude_streamed(): [raised, ran, file, wrote]
RunClaudeStreamed(file, claude) ==
    LET raised == DockerExec({"tty", "check", "quiet"}) IN
    IF raised # "none"
    THEN [raised |-> raised, ran |-> FALSE, file |-> file, wrote |-> FALSE]
    ELSE LET after == AfterDisplay(file, claude.run) IN
         [raised |-> IF claude.host = "KeyboardInterrupt"
                     THEN "KeyboardInterrupt" ELSE "none",
          ran |-> TRUE, file |-> after.file, wrote |-> after.wrote]

\* run_claude_resumed(): [raised, ran, file, wrote]
RunClaudeResumed(file, sid, claude) ==
    LET raised == DockerExec({"tty", "check", "quiet"}) IN
    IF raised # "none"
    THEN [raised |-> raised, ran |-> FALSE, file |-> file, wrote |-> FALSE]
    ELSE LET after == AfterDisplay(file, claude.run) IN
         [raised |-> IF claude.host = "KeyboardInterrupt"
                     THEN "KeyboardInterrupt" ELSE "none",
          ran |-> TRUE, file |-> after.file, wrote |-> after.wrote]

\* select_fix_mode(): the choices of FIX_MODE_CHOICES
FixModes == {"fix_from_log", "compare_ci_run", "custom"}
Feedbacks == {"feedback", "KeyboardInterrupt"}

\* what run_claude_workflow() did: the exception it raised, STATE_FILE
\* after it, whether its analysis run ran and wrote a record and with
\* which session id, and the session id its fix phase was launched with
Workflow(raised, file, analysis, analysis_sid, launched) ==
    [raised |-> raised, file |-> file, analysis |-> analysis,
     analysis_sid |-> analysis_sid, launched |-> launched]

\* run_claude_workflow()
RunClaudeWorkflow(file, mode, first, feedback, second) ==
    LET streamed == RunClaudeStreamed(file, first)
        analysis == IF ~streamed.ran THEN "not run"
                    ELSE IF streamed.wrote THEN "wrote" ELSE "no record"
        analysis_sid == IF streamed.wrote THEN first.run.sid ELSE JNull
        state == ReadContainerStateOf(streamed.file)
        stored_id == state.sid
    IN  IF streamed.raised # "none"
        THEN Workflow(streamed.raised, streamed.file, analysis, analysis_sid,
                      JNull)
        ELSE IF mode = "custom"
        THEN Workflow("none", streamed.file, analysis, analysis_sid, JNull)
        ELSE IF feedback = "KeyboardInterrupt"
        THEN Workflow("none", streamed.file, analysis, analysis_sid, JNull)
        ELSE IF Truthy(stored_id)
        THEN LET resumed == RunClaudeResumed(streamed.file, stored_id, second)
             IN  Workflow(resumed.raised, resumed.file, analysis, analysis_sid,
                          IF resumed.ran THEN stored_id ELSE JNull)
        ELSE Workflow("none", streamed.file, analysis, analysis_sid, JNull)

\* fix_ci() steps 1 to 4b: gather_session_info() (a new session, or an
\* existing container whose stored session the operator resumes or not),
\* the container set up, org and repository resolved
GatherSessionInfo(selection, choice, ci_run_info, org_known) ==
    /\ fix.pc \in {"idle", "exec", "crashed"}
    /\ fix.calls < MaxCalls
    /\ IF selection = "new"
       THEN /\ org_known
            /\ choice = "fresh"
            /\ state_file' = FileAbsent
            /\ fix' = FixSession("new", fix.calls + 1, ci_run_info, TRUE,
                                 JNull)
       ELSE LET state == ReadContainerStateOf(state_file) IN
            /\ ~ci_run_info
            /\ choice = "resume" => Truthy(state.sid)
            /\ UNCHANGED state_file
            /\ fix' = FixSession("resume", fix.calls + 1, FALSE, org_known,
                                 IF choice = "resume" THEN state.sid
                                 ELSE JNull)
    /\ UNCHANGED <<display, helper>>

\* fix_ci() step 5: the try statement around the Claude step
ClaudeStep(mode, first, feedback, second) ==
    /\ fix.pc = "claude"
    /\ IF Truthy(fix.resume_session_id)
       THEN \E raised \in
                  {IF DockerExec({"interactive", "check"}) # "none"
                   THEN DockerExec({"interactive", "check"})
                   ELSE IF first.host = "KeyboardInterrupt"
                   THEN "KeyboardInterrupt" ELSE "none"} :
                /\ mode = "fix_from_log"
                /\ feedback = "feedback"
                /\ first = second
                /\ fix' = [fix EXCEPT
                             !.steps = Append(@, "claude"),
                             !.mode = "resume",
                             !.claude = IF raised = "TypeError"
                                        THEN raised ELSE first.host,
                             !.pc = IF raised \in {"none", "KeyboardInterrupt"}
                                    THEN "learnings" ELSE "crashed",
                             !.exc = IF raised \in {"none", "KeyboardInterrupt"}
                                     THEN "none" ELSE raised]
                /\ UNCHANGED state_file
       ELSE \E done \in {RunClaudeWorkflow(state_file, mode, first, feedback,
                                            second)} :
                /\ fix.ci_run_info => mode = "compare_ci_run"
                /\ fix' = [fix EXCEPT
                             !.steps = Append(@, "claude"),
                             !.mode = mode,
                             !.claude = IF done.raised = "none"
                                        THEN "returned" ELSE done.raised,
                             !.analysis = done.analysis,
                             !.analysis_sid = done.analysis_sid,
                             !.launched = done.launched,
                             !.pc = IF done.raised \in
                                          {"none", "KeyboardInterrupt"}
                                    THEN "learnings" ELSE "crashed",
                             !.exc = IF done.raised \in
                                          {"none", "KeyboardInterrupt"}
                                     THEN "none" ELSE done.raised]
                /\ state_file' = done.file
    /\ UNCHANGED <<display, helper>>

\* what copy_learnings_from_container() may do
Copies == {"no learnings", "copied", "CalledProcessError"}

\* fix_ci() step 6: copy_learnings_from_container() when org and
\* repository are known
SaveLearnings(copy) ==
    /\ fix.pc = "learnings"
    /\ IF fix.org_known
       THEN fix' = [fix EXCEPT
                      !.steps = Append(@, "learnings"),
                      !.copy = copy,
                      !.pc = IF copy = "CalledProcessError"
                             THEN "crashed" ELSE "shell",
                      !.exc = IF copy = "CalledProcessError"
                              THEN copy ELSE "none"]
       ELSE /\ copy = "no learnings"
            /\ fix' = [fix EXCEPT !.pc = "shell"]
    /\ UNCHANGED <<state_file, display, helper>>

\* fix_ci() step 7: drop_to_shell(), which replaces the process (os.execvp)
DropToShell ==
    /\ fix.pc = "shell"
    /\ fix' = [fix EXCEPT !.steps = Append(@, "shell"), !.pc = "exec"]
    /\ UNCHANGED <<state_file, display, helper>>

NextFixCi ==
    \/ \E selection \in {"new", "existing"}, choice \in {"resume", "fresh"},
          ci_run_info \in BOOLEAN, org_known \in BOOLEAN :
          GatherSessionInfo(selection, choice, ci_run_info, org_known)
    \/ \E mode \in FixModes, first \in ClaudeRuns, feedback \in Feedbacks,
          second \in ClaudeRuns :
          ClaudeStep(mode, first, feedback, second)
    \/ \E copy \in Copies : SaveLearnings(copy)
    \/ DropToShell

SpecFixCi == Init /\ [][NextFixCi]_vars

FixCiEnded == fix.pc \in {"exec", "crashed"}

\* C30: in fix_ci, once the Claude step has started, the learnings are
\* copied back (when org and repository are known) and then the shell is
\* entered, in that order, however the Claude step ended.
C30_LearningsThenShell ==
    (FixCiEnded /\ fix.claude # "none")
       => fix.steps = <<"claude">>
                         \o (IF fix.org_known THEN <<"learnings">> ELSE <<>>)
                         \o <<"shell">>

(***************************************************************************)
(* merge_helper_vars.py.  A file is a sequence of lines; a line is an      *)
(* assignment (VAR=value, with or without the export prefix), the start of *)
(* a function or section, or anything else.                                *)
(***************************************************************************)
\* the longest old file and the longest updated file of the model
MaxOldLines == 2
MaxNewLines == 3

Assignment(export, name, value) ==
    [kind |-> "assignment", export |-> export, name |-> name, value |-> value]
FunctionOrSection ==
    [kind |-> "section", export |-> FALSE, name |-> "", value |-> ""]

SKIP_VARS == {"Red", "Green", "Yellow", "Color_Off"}

\* REFERENCES_OTHER_VAR.search(value)
ReferencesOtherVar(value) == value = "${X}"

\* the files the operator may have: the lines of the old file and of the
\* updated file
OldLines ==
    { Assignment(FALSE, "Color_Off", "0"), Assignment(FALSE, "A", "1"),
      Assignment(TRUE, "A", "1"), Assignment(FALSE, "B", "1"),
      FunctionOrSection }
NewLines ==
    { Assignment(FALSE, "Color_Off", "0"), Assignment(FALSE, "A", "1"),
      Assignment(FALSE, "A", "2"), Assignment(FALSE, "B", "${X}"),
      FunctionOrSection }
FilesOf(lines, longest) ==
    UNION { [1..n -> lines] : n \in 0..longest }

\* the lines before the first function or section
RECURSIVE TopLevel(_)
TopLevel(lines) ==
    IF lines = <<>> \/ Head(lines).kind = "section" THEN <<>>
    ELSE <<Head(lines)>> \o TopLevel(Tail(lines))

\* the loop body of extract_top_level_vars() over lines
RECURSIVE ExtractVars(_)
ExtractVars(lines) ==
    IF lines = <<>> THEN [variables |-> <<>>, exports |-> {}]
    ELSE LET rest == ExtractVars(SubSeq(lines, 1, Len(lines) - 1))
             line == lines[Len(lines)]
         IN  IF \/ line.kind # "assignment"
                \/ line.name \in SKIP_VARS
                \/ ReferencesOtherVar(line.value)
             THEN rest
             ELSE [variables |-> DictSet(rest.variables, line.name, line.value),
                   exports |-> IF line.export
                               THEN rest.exports \cup {line.name}
                               ELSE rest.exports]

\* extract_top_level_vars(): [variables, exports]
ExtractTopLevelVars(lines) == ExtractVars(TopLevel(lines))

\* the first of the line numbers in found, 0 when there is none
FirstLine(found) ==
    IF found = {} THEN 0
    ELSE CHOOSE i \in found : \A j \in found : i <= j

\* apply_var_to_file(): the lines it writes back
ApplyVarToFile(lines, var_name, value, export) ==
    LET at == FirstLine({ i \in 1..Len(lines) :
                            /\ lines[i].kind = "assignment"
                            /\ lines[i].name = var_name })
        after == FirstLine({ i \in 1..Len(lines) :
                               /\ lines[i].kind = "assignment"
                               /\ lines[i].name = "Color_Off"
                               /\ ~lines[i].export })
    IN  IF at # 0
        THEN [lines EXCEPT ![at] =
                 Assignment(lines[at].export \/ export, var_name, value)]
        ELSE IF after # 0
        THEN SubSeq(lines, 1, after)
                \o <<Assignment(export, var_name, value)>>
                \o SubSeq(lines, after + 1, Len(lines))
        ELSE lines

\* ask_user(): what the operator may answer
Responses == {"", "n"}

\* main() up to the first loop: both files read
ReadFiles(old, new) ==
    /\ helper.pc = "idle"
    /\ LET old_vars == ExtractTopLevelVars(old) IN
       helper' = [pc |-> IF old_vars.variables = <<>> THEN "done" ELSE "compare",
                  old |-> old, updated |-> new, new |-> new,
                  old_vars |-> old_vars.variables,
                  old_exports |-> old_vars.exports,
                  new_vars |-> ExtractTopLevelVars(new).variables,
                  vars_to_apply |-> <<>>, at |-> 1, asked |-> <<>>]
    /\ UNCHANGED <<vars_display, fix>>

\* main(): one iteration of the loop over old_vars
CompareVar(response) ==
    /\ helper.pc = "compare"
    /\ LET var_name == helper.old_vars[helper.at].k
           old_value == helper.old_vars[helper.at].v
           only_old == ~DictHas(helper.new_vars, var_name)
           differs == /\ ~only_old
                      /\ DictGet(helper.new_vars, var_name, "") # old_value
           last == helper.at = Len(helper.old_vars)
           to_apply ==
              IF only_old \/ (differs /\ response # "n")
              THEN DictSet(helper.vars_to_apply, var_name, old_value)
              ELSE helper.vars_to_apply
       IN  /\ ~differs => response = ""
           /\ helper' = [helper EXCEPT
                  !.vars_to_apply = to_apply,
                  !.asked = IF differs THEN Append(@, var_name) ELSE @,
                  !.at = IF last THEN 1 ELSE @ + 1,
                  !.pc = IF ~last THEN "compare"
                         ELSE IF to_apply = <<>> THEN "done" ELSE "apply"]
    /\ UNCHANGED <<vars_display, fix>>

\* main(): one iteration of the loop over vars_to_apply
ApplyVar ==
    /\ helper.pc = "apply"
    /\ LET var_name == helper.vars_to_apply[helper.at].k
           value == helper.vars_to_apply[helper.at].v
           last == helper.at = Len(helper.vars_to_apply)
       IN  helper' = [helper EXCEPT
              !.new = ApplyVarToFile(@, var_name, value,
                                     var_name \in helper.old_exports),
              !.at = IF last THEN @ ELSE @ + 1,
              !.pc = IF last THEN "done" ELSE "apply"]
    /\ UNCHANGED <<vars_display, fix>>

NextMerge ==
    \/ \E old \in FilesOf(OldLines, MaxOldLines),
          new \in FilesOf(NewLines, MaxNewLines) : ReadFiles(old, new)
    \/ \E response \in Responses : CompareVar(response)
    \/ ApplyVar

\* the merge does not depend on what STATE_FILE holds
InitMerge == Init /\ state_file = FileAbsent

SpecMerge == InitMerge /\ [][NextMerge]_vars

\* the variables that only the old file has at its top level
OnlyInOld ==
    { i \in 1..Len(helper.old_vars) :
         ~DictHas(helper.new_vars, helper.old_vars[i].k) }

\* the merged file assigns value to var_name
Assigns(var_name, value, export) ==
    \E i \in 1..Len(helper.new) :
       /\ helper.new[i].kind = "assignment"
       /\ helper.new[i].name = var_name
       /\ helper.new[i].value = value
       /\ export => helper.new[i].export

\* C26: after the merge every top-level variable that only the old file
\* has is in the new file with its old value, and with its export prefix
\* if it had one, whatever the new file holds; when every variable of the
\* old file is in the new file with the same value the new file is left
\* unchanged.
C26_OldOnlyVarsPreserved ==
    helper.pc = "done"
       => /\ \A i \in OnlyInOld :
                Assigns(helper.old_vars[i].k, helper.old_vars[i].v,
                        helper.old_vars[i].k \in helper.old_exports)
          /\ (\A i \in 1..Len(helper.old_vars) :
                 DictGet(helper.new_vars, helper.old_vars[i].k, "")
                    = helper.old_vars[i].v)
                => helper.new = helper.updated

(***************************************************************************)
(* The display process over the lines that differ in what they do to the   *)
(* record it writes: text that is not JSON, a JSON array (a fault nothing  *)
(* catches), events with a session id (s1, then s2), an event with an      *)
(* empty session id, and prose that the final flush has to print.  Every   *)
(* ending of main() is kept: end of input, interrupts, faults, failed      *)
(* writes and kills.                                                       *)
(***************************************************************************)
RecordLines ==
    {NoiseLine, ArrayLine, InitEvent, ProseEvent, ToolEvent, ResultEvent}

NextRecords ==
    \/ StartRun
    \/ \E line \in RecordLines : HandleLine(line)
    \/ \E line \in RecordLines, k \in 0..(MaxOps - 1) :
          InterruptInLine(line, k)
    \/ \E line \in RecordLines, k \in 0..(MaxOps - 1), printed \in BOOLEAN :
          FaultInLine(line, k, printed)
    \/ Interrupt
    \/ StreamFault
    \/ EndOfInput
    \/ EndOfInputFault
    \/ WriteOpen
    \/ WriteDump
    \/ \E n \in CutPoints : WriteCutShort(n)
    \/ Kill
    \/ \E stderr_log \in StderrLogs : PrintSessionSummary(stderr_log)

SpecRecords == Init /\ [][NextRecords]_vars

====
